---- MODULE Spec2Model ----
(***************************************************************************)
(* Model of API-Termometro (src/src/index.ts): a Hono HTTP gateway with    *)
(* three routes (POST /sensor, GET /read/:value/:scale, DELETE /measures)  *)
(* over one process-wide MongoClient.  Every request is an async handler   *)
(* that is suspended at each await; the model has one action per stretch   *)
(* of code between two awaits, so requests interleave exactly where the    *)
(* event loop can interleave them.  Time is counted in seconds.            *)
(***************************************************************************)
EXTENDS Integers, Sequences, FiniteSets, TLC

VARIABLES
    collection,   \* the documents of the MongoDB collection, in natural order
    nextId,       \* the next storage-assigned _id
    connected,    \* whether the shared MongoClient is connected
    now,          \* the server clock, in seconds
    tz,           \* the time zone of the server process
    req,          \* the requests being served, one record per slot
    received,     \* how many requests have arrived
    last,         \* the request that was answered last, with its response
    deleted       \* history: some DELETE /measures has been answered 200

vars == <<collection, nextId, connected, now, tz, req, received, last, deleted>>

----------------------------------------------------------------------------
(* Bounds of the model *)

NumReqs == 2        \* requests that can be in flight together
MaxRequests == 2    \* requests received in one behaviour of Spec
MaxSeqRequests == 3 \* requests received in one behaviour of SpecSeq
MaxTime == 1        \* the clock runs from 0 to MaxTime

Reqs == 1..NumReqs

----------------------------------------------------------------------------
(* Configuration: lines 10-24 *)

token_write == "write-secret"
token_delete == "delete-secret"

\* What a client can present as bearer token ("" is no Authorization header).
Tokens == {"", token_write, token_delete}

----------------------------------------------------------------------------
(* JSON values and request bodies *)

JStr(s) == [type |-> "string", str |-> s, num |-> 0]
JNum(n) == [type |-> "number", str |-> "", num |-> n]
JNone == [type |-> "undefined", str |-> "", num |-> 0]

\* JavaScript truthiness, as `if (data.measure)` applies it.
Truthy(j) ==
    CASE j.type = "string" -> j.str # ""
      [] j.type = "number" -> j.num # 0
      [] OTHER -> FALSE

\* A request body: not JSON at all, JSON without measure, JSON with measure.
BadJson == [valid |-> FALSE, hasMeasure |-> FALSE, measure |-> JNone]
NoMeasure == [valid |-> TRUE, hasMeasure |-> FALSE, measure |-> JNone]
WithMeasure(j) == [valid |-> TRUE, hasMeasure |-> TRUE, measure |-> j]

Measures == {JStr("23.5"), JStr(""), JNum(0)}
Bodies == {BadJson, NoMeasure} \cup {WithMeasure(j) : j \in Measures}

----------------------------------------------------------------------------
(* Path parameters of GET /read/:value/:scale *)

Digits == {"0", "1"}

\* The :value parameter, as the sequence of its characters.
ValueParams == {<<"1">>, <<"0">>, <<"-", "1">>, <<"a">>, <<"1", "a">>}
ScaleParams == {"hours", "mins", "secs", "weeks"}

DigitValue(c) == IF c = "1" THEN 1 ELSE 0

\* The longest prefix of s made of digits.
RECURSIVE DigitPrefix(_)
DigitPrefix(s) ==
    IF s = <<>> \/ s[1] \notin Digits THEN <<>>
    ELSE <<s[1]>> \o DigitPrefix(Tail(s))

RECURSIVE DecimalValue(_)
DecimalValue(d) ==
    IF d = <<>> THEN 0
    ELSE 10 * DecimalValue(SubSeq(d, 1, Len(d) - 1)) + DigitValue(d[Len(d)])

NaN == [nan |-> TRUE, n |-> 0]
Num(n) == [nan |-> FALSE, n |-> n]

\* parseInt: an optional sign, then the longest run of digits; what follows
\* the digits is ignored, and no digit at all gives NaN.
parseInt(s) ==
    LET neg == s # <<>> /\ s[1] = "-"
        body == IF neg THEN Tail(s) ELSE s
        d == DigitPrefix(body)
    IN  IF d = <<>> THEN NaN
        ELSE Num(IF neg THEN 0 - DecimalValue(d) ELSE DecimalValue(d))

\* `!value || !scale || value <= 0` of line 128.
InvalidParams(value, scale) == value.nan \/ value.n = 0 \/ scale = "" \/ value.n <= 0

NotImplemented == [known |-> FALSE, seconds |-> 0]

\* The switch without its default case: an unknown scale counts as seconds.
ScaleSecondsNoDefault(scale, n) ==
    CASE scale = "hours" -> [known |-> TRUE, seconds |-> n * 3600]
      [] scale = "mins" -> [known |-> TRUE, seconds |-> n * 60]
      [] OTHER -> [known |-> TRUE, seconds |-> n]

\* The switch of lines 134-147.
ScaleSeconds(scale, n) ==
    CASE scale = "hours" -> [known |-> TRUE, seconds |-> n * 3600]
      [] scale = "mins" -> [known |-> TRUE, seconds |-> n * 60]
      [] scale = "secs" -> [known |-> TRUE, seconds |-> n]
      [] OTHER -> NotImplemented

----------------------------------------------------------------------------
(* Time: new Date(), getSeconds and setSeconds *)

\* A zone is its offset from UTC before and after one transition instant.
TimeZones ==
    { [before |-> 0, after |-> 0, at |-> 0],          \* UTC
      [before |-> 3600, after |-> 0, at |-> 0] }      \* summer time ends at 0

Max(a, b) == IF a >= b THEN a ELSE b

\* LocalTime(t) of ECMAScript: the time value plus the zone's offset at t.
LocalTime(zone, t) == t + (IF t < zone.at THEN zone.before ELSE zone.after)

\* UTC(t) of ECMAScript: a local time that is repeated or skipped at the
\* transition is read with the offset in force before the transition.
UTC(zone, tl) ==
    tl - (IF tl < zone.at + Max(zone.before, zone.after) THEN zone.before ELSE zone.after)

\* secondsToDate, lines 87-91: getSeconds reads the seconds field of the
\* local time and setSeconds writes it back, so the subtraction is done on
\* the local time and the result is converted back to a time value.
secondsToDate(zone, t, seconds) == UTC(zone, LocalTime(zone, t) - seconds)

----------------------------------------------------------------------------
(* The storage *)

Limit == 100

Doc(id, value, date) == [_id |-> id, value |-> value, date |-> date]

\* projection: { _id: 0 }
Project(d) == [value |-> d.value, date |-> d.date]

\* The filter with $gt in the place of $gte.
MatchesAfter(d, dateSearch) == d.date > dateSearch

\* filter { date: { $gte: dateSearch } }
Matches(d, dateSearch) == d.date >= dateSearch

Filter(docs, dateSearch) == SelectSeq(docs, LAMBDA d : Matches(d, dateSearch))

Take(s, n) == SubSeq(s, 1, IF Len(s) < n THEN Len(s) ELSE n)

\* find(filter, { limit: 100, projection: { _id: 0 } }).toArray()
FindResult(docs, dateSearch) ==
    LET hit == Take(Filter(docs, dateSearch), Limit)
    IN  [i \in 1..Len(hit) |-> Project(hit[i])]

\* insertOne({ value, date: new Date() })
Inserted(docs, id, value, t) == Append(docs, Doc(id, value, t))

\* deleteOne({}) in the place of deleteMany({}).
DeletedOne(docs) == IF docs = <<>> THEN <<>> ELSE Tail(docs)

\* deleteMany({})
Deleted(docs) == <<>>

\* A collection that already holds Limit measurements, taken before the
\* clock of the model starts.
Prefilled == [i \in 1..Limit |-> Doc(i, JStr("20"), 0 - 5)]

----------------------------------------------------------------------------
(* Requests *)

NoPrev ==
    [kind |-> "none", status |-> 0, measure |-> JNone, date |-> 0, count |-> 0,
     quiet |-> FALSE]

Idle ==
    [kind |-> "none", pc |-> "idle", token |-> "", body |-> BadJson,
     value |-> <<>>, scale |-> "", status |-> 0, message |-> "",
     measures |-> <<>>, resultado |-> FALSE, thrown |-> FALSE,
     seconds |-> 0, dateSearch |-> 0, t0 |-> 0, savedDate |-> 0,
     connects |-> 0, ops |-> 0, closes |-> 0,
     foreignClose |-> FALSE, opAfterForeignClose |-> FALSE,
     deletedCount |-> 0, alone |-> TRUE, after |-> NoPrev, afterDelete |-> FALSE]

InFlight(r) == req[r].pc # "idle"

\* bearerAuth({ token }): the request gets through when it presents the
\* route's token.
bearerAuth(token, presented) == presented = token

\* Both routes guarded by the write token.
RouteTokenWrite(kind) == IF kind \in {"create", "delete"} THEN token_write ELSE ""

RouteToken(kind) ==
    CASE kind = "create" -> token_write
      [] kind = "delete" -> token_delete
      [] OTHER -> ""

\* A try block without finally: a throw leaves the function at once.
NextOnThrowNoFinally == "return"

\* In a try block with a finally, a throw runs the finally block next.
NextOnThrow == "close"

\* What a request remembers of the request answered just before it came:
\* a create answered 202 or a delete answered 200.
Summary(q) ==
    IF (q.kind = "create" /\ q.status = 202) \/ (q.kind = "delete" /\ q.status = 200)
    THEN [kind |-> q.kind, status |-> q.status, measure |-> q.body.measure,
          date |-> q.savedDate, count |-> q.deletedCount, quiet |-> q.alone]
    ELSE NoPrev

\* The handler returns c.json(...): the response goes out and the request
\* is over.
Answer(r, q) ==
    /\ req' = [req EXCEPT ![r] = Idle]
    /\ last' = [q EXCEPT !.pc = "done"]
    /\ deleted' = (deleted \/ (q.kind = "delete" /\ q.status = 200))

Stay(r, q) ==
    /\ req' = [req EXCEPT ![r] = q]
    /\ UNCHANGED <<last, deleted>>

----------------------------------------------------------------------------
(* Initial state *)

Init ==
    /\ collection \in {<<>>, Prefilled}
    /\ nextId = Limit + 1
    /\ connected = FALSE
    /\ now = 0
    /\ tz \in TimeZones
    /\ req = [r \in Reqs |-> Idle]
    /\ received = 0
    /\ last = Idle
    /\ deleted = FALSE

----------------------------------------------------------------------------
(* A request arrives: routing, the bearerAuth middleware, and the handler  *)
(* up to its first await on the storage                                    *)

\* The request as it enters slot r: it remembers whether it has the server
\* to itself and which request was answered just before.
Arrived(r, q) ==
    LET busy == \E o \in Reqs \ {r} : InFlight(o)
    IN  [q EXCEPT !.alone = ~busy,
                  !.t0 = now,
                  !.afterDelete = deleted,
                  !.after = IF busy THEN NoPrev ELSE Summary(last)]

\* The requests in flight are no longer alone; slot r holds q, or is free
\* again when the response is out already.
Enter(r, q) ==
    /\ req' = [o \in Reqs |->
                 IF o = r THEN (IF q.pc = "done" THEN Idle ELSE q)
                 ELSE IF InFlight(o) THEN [req[o] EXCEPT !.alone = FALSE]
                 ELSE req[o]]
    /\ last' = IF q.pc = "done" THEN q ELSE last
    /\ UNCHANGED deleted

Free(r, budget) ==
    /\ received < budget
    /\ ~InFlight(r)
    /\ \A o \in Reqs : o < r => InFlight(o)

\* bearerAuth answers 401 itself and the handler never runs.
Rejected(q) == [q EXCEPT !.pc = "done", !.status = 401, !.message = "Unauthorized"]

\* app.post("/sensor", bearerAuth({ token: token_write }), ...), lines 103-108
\* and 116-120.
PostSensorHandler(q) ==
    LET q4 == [q EXCEPT !.status = 400]
    IN  IF ~q4.body.valid
        THEN [q4 EXCEPT !.pc = "done", !.message = "Error not expected"]
        ELSE IF Truthy(q4.body.measure)
        THEN [q4 EXCEPT !.pc = "connect", !.resultado = FALSE]
        ELSE [q4 EXCEPT !.pc = "done", !.message = "Please send a valid JSON"]

PostSensorFrom(r, tokens, bodies, budget) ==
    /\ Free(r, budget)
    /\ received' = received + 1
    /\ \E t \in tokens, b \in bodies :
         LET q == Arrived(r, [Idle EXCEPT !.kind = "create", !.token = t, !.body = b])
         IN  IF bearerAuth(RouteToken("create"), t)
             THEN Enter(r, PostSensorHandler(q))
             ELSE /\ b = BadJson          \* the body is never read
                  /\ Enter(r, Rejected(q))
    /\ UNCHANGED <<collection, nextId, connected, now, tz>>

\* app.get("/read/:value/:scale", ...), lines 123-150.
GetReadHandler(q, zone, t) ==
    LET q4 == [q EXCEPT !.status = 400]
        value == parseInt(q4.value)
        sw == ScaleSeconds(q4.scale, value.n)
    IN  IF InvalidParams(value, q4.scale)
        THEN [q4 EXCEPT !.pc = "done", !.status = 400,
                        !.message = "Please send a valid value and scale"]
        ELSE IF ~sw.known
        THEN [q4 EXCEPT !.pc = "done", !.status = 400, !.message = "Not implemented"]
        ELSE [q4 EXCEPT !.pc = "connect",
                        !.seconds = sw.seconds,
                        !.dateSearch = secondsToDate(zone, t, sw.seconds)]

GetReadFrom(r, values, scales, budget) ==
    /\ Free(r, budget)
    /\ received' = received + 1
    /\ \E v \in values, s \in scales :
         Enter(r, GetReadHandler(
                    Arrived(r, [Idle EXCEPT !.kind = "read", !.value = v, !.scale = s]),
                    tz, now))
    /\ UNCHANGED <<collection, nextId, connected, now, tz>>

\* app.delete("/measures", bearerAuth({ token: token_delete }), ...), lines
\* 159-162.
DeleteMeasuresHandler(q) ==
    [q EXCEPT !.status = 400, !.pc = "connect", !.resultado = FALSE]

DeleteMeasuresFrom(r, tokens, budget) ==
    /\ Free(r, budget)
    /\ received' = received + 1
    /\ \E t \in tokens :
         LET q == Arrived(r, [Idle EXCEPT !.kind = "delete", !.token = t])
         IN  IF bearerAuth(RouteToken("delete"), t)
             THEN Enter(r, DeleteMeasuresHandler(q))
             ELSE Enter(r, Rejected(q))
    /\ UNCHANGED <<collection, nextId, connected, now, tz>>

PostSensor(r) == PostSensorFrom(r, Tokens, Bodies, MaxRequests)
GetRead(r) == GetReadFrom(r, ValueParams, ScaleParams, MaxRequests)
DeleteMeasures(r) == DeleteMeasuresFrom(r, Tokens, MaxRequests)

----------------------------------------------------------------------------
(* save, read and deleteAll: connect, one operation, close *)

\* await client.connect(): it connects the shared client, or it throws.
Connect(r) ==
    /\ req[r].pc = "connect"
    /\ \E ok \in BOOLEAN :
         IF ok
         THEN /\ connected' = TRUE
              /\ Stay(r, [req[r] EXCEPT !.pc = "op", !.connects = @ + 1])
         ELSE /\ UNCHANGED connected
              /\ Stay(r, [req[r] EXCEPT !.pc = NextOnThrow, !.connects = @ + 1,
                                        !.thrown = TRUE])
    /\ UNCHANGED <<collection, nextId, now, tz, received>>

\* The operation runs on the shared client.  When another request has closed
\* the client meanwhile, the driver either throws or connects again.
Operate(r, q) ==
    [q EXCEPT !.ops = @ + 1, !.opAfterForeignClose = q.foreignClose]

\* insertOne({ value: measure, date: new Date() }); resultado = true.
InsertOne(r) ==
    /\ req[r].pc = "op"
    /\ req[r].kind = "create"
    /\ \E ok \in BOOLEAN :
         IF ok
         THEN /\ collection' = Inserted(collection, nextId, req[r].body.measure, now)
              /\ nextId' = nextId + 1
              /\ connected' = TRUE
              /\ Stay(r, [Operate(r, req[r]) EXCEPT !.pc = "close", !.resultado = TRUE,
                                                     !.savedDate = now])
         ELSE /\ UNCHANGED <<collection, nextId, connected>>
              /\ Stay(r, [Operate(r, req[r]) EXCEPT !.pc = NextOnThrow, !.thrown = TRUE])
    /\ UNCHANGED <<now, tz, received>>

\* find({ date: { $gte } }, { limit, projection }).toArray(); resultado = it.
Find(r) ==
    /\ req[r].pc = "op"
    /\ req[r].kind = "read"
    /\ \E ok \in BOOLEAN :
         IF ok
         THEN /\ connected' = TRUE
              /\ Stay(r, [Operate(r, req[r]) EXCEPT
                            !.pc = "close",
                            !.measures = FindResult(collection, req[r].dateSearch)])
         ELSE /\ UNCHANGED connected
              /\ Stay(r, [Operate(r, req[r]) EXCEPT !.pc = NextOnThrow, !.thrown = TRUE])
    /\ UNCHANGED <<collection, nextId, now, tz, received>>

\* deleteMany({}); resultado = true.
DeleteMany(r) ==
    /\ req[r].pc = "op"
    /\ req[r].kind = "delete"
    /\ \E ok \in BOOLEAN :
         IF ok
         THEN /\ collection' = Deleted(collection)
              /\ connected' = TRUE
              /\ Stay(r, [Operate(r, req[r]) EXCEPT !.pc = "close", !.resultado = TRUE,
                                                     !.deletedCount = Len(collection)])
         ELSE /\ UNCHANGED <<collection, connected>>
              /\ Stay(r, [Operate(r, req[r]) EXCEPT !.pc = NextOnThrow, !.thrown = TRUE])
    /\ UNCHANGED <<nextId, now, tz, received>>

\* finally { await client.close() }: the shared client is closed, whoever
\* else is using it.
Close(r) ==
    /\ req[r].pc = "close"
    /\ connected' = FALSE
    /\ req' = [o \in Reqs |->
                 IF o = r THEN [req[r] EXCEPT !.pc = "return", !.closes = @ + 1]
                 ELSE IF req[o].pc = "op" THEN [req[o] EXCEPT !.foreignClose = TRUE]
                 ELSE req[o]]
    /\ UNCHANGED <<collection, nextId, now, tz, received, last, deleted>>

----------------------------------------------------------------------------
(* The handlers, after the storage function has returned or thrown *)

\* The catch block: the exception's message, the status as it was set last.
Caught(q) == [q EXCEPT !.message = "Error not expected"]

\* app.post("/sensor"), lines 108-120.
PostSensorReturn(r) ==
    LET q == req[r]
    IN  /\ q.pc = "return"
        /\ q.kind = "create"
        /\ IF q.thrown THEN Answer(r, Caught(q))
           ELSE IF q.resultado
           THEN Answer(r, [q EXCEPT !.status = 202, !.message = "Saved"])
           ELSE Answer(r, [q EXCEPT !.status = 500, !.message = "Failed to saved data"])
        /\ UNCHANGED <<collection, nextId, connected, now, tz, received>>

\* app.get("/read/:value/:scale"), lines 150-156.
GetReadReturn(r) ==
    LET q == req[r]
    IN  /\ q.pc = "return"
        /\ q.kind = "read"
        /\ IF q.thrown THEN Answer(r, Caught(q))
           ELSE Answer(r, [q EXCEPT !.status = 200, !.message = "measures"])
        /\ UNCHANGED <<collection, nextId, connected, now, tz, received>>

\* app.delete("/measures"), lines 162-171.
DeleteMeasuresReturn(r) ==
    LET q == req[r]
    IN  /\ q.pc = "return"
        /\ q.kind = "delete"
        /\ IF q.thrown THEN Answer(r, Caught(q))
           ELSE IF q.resultado
           THEN Answer(r, [q EXCEPT !.status = 200, !.message = "Deleted"])
           ELSE Answer(r, [q EXCEPT !.status = 500, !.message = "Failed to delete data"])
        /\ UNCHANGED <<collection, nextId, connected, now, tz, received>>

----------------------------------------------------------------------------
(* The clock *)

Tick ==
    /\ now < MaxTime
    /\ now' = now + 1
    /\ UNCHANGED <<collection, nextId, connected, tz, req, received, last, deleted>>

Next ==
    \/ \E r \in Reqs : PostSensor(r)
    \/ \E r \in Reqs : GetRead(r)
    \/ \E r \in Reqs : DeleteMeasures(r)
    \/ \E r \in Reqs : Connect(r)
    \/ \E r \in Reqs : InsertOne(r)
    \/ \E r \in Reqs : Find(r)
    \/ \E r \in Reqs : DeleteMany(r)
    \/ \E r \in Reqs : Close(r)
    \/ \E r \in Reqs : PostSensorReturn(r)
    \/ \E r \in Reqs : GetReadReturn(r)
    \/ \E r \in Reqs : DeleteMeasuresReturn(r)
    \/ Tick

Spec == Init /\ [][Next]_vars

----------------------------------------------------------------------------
(* The same server under longer runs of the requests that reach the       *)
(* storage: every request is authorized and well formed.                  *)

SeqMeasures == {WithMeasure(JStr("23.5"))}
SeqValues == {<<"1">>}
SeqScales == {"hours", "secs"}

PostSensorSeq(r) == PostSensorFrom(r, {token_write}, SeqMeasures, MaxSeqRequests)
GetReadSeq(r) == GetReadFrom(r, SeqValues, SeqScales, MaxSeqRequests)
DeleteMeasuresSeq(r) == DeleteMeasuresFrom(r, {token_delete}, MaxSeqRequests)

NextSeq ==
    \/ \E r \in Reqs : PostSensorSeq(r)
    \/ \E r \in Reqs : GetReadSeq(r)
    \/ \E r \in Reqs : DeleteMeasuresSeq(r)
    \/ \E r \in Reqs : Connect(r)
    \/ \E r \in Reqs : InsertOne(r)
    \/ \E r \in Reqs : Find(r)
    \/ \E r \in Reqs : DeleteMany(r)
    \/ \E r \in Reqs : Close(r)
    \/ \E r \in Reqs : PostSensorReturn(r)
    \/ \E r \in Reqs : GetReadReturn(r)
    \/ \E r \in Reqs : DeleteMeasuresReturn(r)
    \/ Tick

SpecSeq == Init /\ [][NextSeq]_vars

----------------------------------------------------------------------------
(* Vocabulary of the properties *)

Answered(kind) == last.pc = "done" /\ last.kind = kind

\* The request called save, read or deleteAll.
CalledStorage(q) == q.connects > 0

Contains(measures, m) == \E i \in 1..Len(measures) : measures[i].value = m

KnownScales == {"hours", "mins", "secs"}

\* A decimal integer: an optional sign and then digits only.
WellFormed(s) ==
    LET body == IF s # <<>> /\ s[1] = "-" THEN Tail(s) ELSE s
    IN  body # <<>> /\ \A i \in 1..Len(body) : body[i] \in Digits

\* The read was the next request after a create answered 202, and neither
\* of the two overlapped any other request.
FollowsCreate(q) ==
    /\ q.kind = "read"
    /\ q.alone
    /\ q.after.kind = "create"
    /\ q.after.quiet

FollowsDelete(q) ==
    /\ q.kind = "read"
    /\ q.alone
    /\ q.after.kind = "delete"
    /\ q.after.quiet

\* The cutoff the read computed is not later than the date of the document.
Covers(q) == CalledStorage(q) /\ q.dateSearch <= q.after.date

----------------------------------------------------------------------------
(* C1: create, then read *)

\* C1 as stated: a read that immediately follows a create answered 202 and
\* whose window covers the creation time answers 200 with a list that holds
\* the created value (read here for the reads whose storage calls succeed).
C1_ReadAfterCreateHoldsValue ==
    (Answered("read") /\ FollowsCreate(last) /\ Covers(last) /\ ~last.thrown)
        => (last.status = 200 /\ Contains(last.measures, last.after.measure))

\* C1 amended: such a read answers 200 and its list holds the created value
\* or is full (Limit documents stored earlier), unless connect or find throws,
\* and then it answers 400 "Error not expected".
C1_ReadAfterCreate ==
    (Answered("read") /\ FollowsCreate(last) /\ Covers(last))
        => IF last.thrown
           THEN last.status = 400 /\ last.message = "Error not expected"
           ELSE /\ last.status = 200
                /\ \/ Contains(last.measures, last.after.measure)
                   \/ Len(last.measures) = Limit

\* The created value is read back from a collection of more than Limit
\* documents, the older ones outside the window.
C1_Witness ==
    /\ Answered("read") /\ FollowsCreate(last) /\ Covers(last)
    /\ last.status = 200
    /\ Contains(last.measures, last.after.measure)
    /\ Len(last.measures) < Limit
    /\ Len(collection) > Limit

----------------------------------------------------------------------------
(* C2: delete, then read *)

\* C2 as stated: once a delete has been answered 200, every later read with
\* valid value and scale answers 200 with an empty list (read here for the
\* reads whose storage calls succeed).
C2_ReadAfterDeleteAlwaysEmpty ==
    (Answered("read") /\ last.afterDelete /\ CalledStorage(last) /\ ~last.thrown)
        => (last.status = 200 /\ last.measures = <<>>)

\* C2 amended: a valid read that is the next request after a delete answered
\* 200, neither overlapping another request, answers 200 with an empty list,
\* unless connect or find throws, and then it answers 400.
C2_ReadAfterDelete ==
    (Answered("read") /\ FollowsDelete(last) /\ CalledStorage(last))
        => IF last.thrown
           THEN last.status = 400 /\ last.message = "Error not expected"
           ELSE last.status = 200 /\ last.measures = <<>>

\* An empty list is read right after a delete that removed documents.
C2_Witness ==
    /\ Answered("read") /\ FollowsDelete(last) /\ CalledStorage(last)
    /\ last.after.count >= Limit
    /\ last.status = 200
    /\ last.measures = <<>>

----------------------------------------------------------------------------
(* C3: what a 200 response of the read endpoint carries *)

\* C3: every 200 response of the read endpoint carries at most Limit
\* measurements, each dated at or after the server time of the request minus
\* the translated seconds, and none with the storage-assigned identifier.
C3_ReadResponse ==
    (Answered("read") /\ last.status = 200)
        => /\ Len(last.measures) <= Limit
           /\ \A i \in 1..Len(last.measures) :
                /\ last.measures[i].date >= last.t0 - last.seconds
                /\ DOMAIN last.measures[i] = {"value", "date"}

----------------------------------------------------------------------------
(* C4: the bearer tokens *)

Unauthorized(q) ==
    \/ q.kind = "create" /\ q.token # token_write
    \/ q.kind = "delete" /\ q.token # token_delete

\* No handler runs for an unauthorized request, and its answer is a 401 that
\* called nothing.
NoHandlerForUnauthorized ==
    /\ \A r \in Reqs : ~Unauthorized(req[r])
    /\ (last.pc = "done" /\ Unauthorized(last))
          => (last.status = 401 /\ last.connects = 0 /\ last.ops = 0)

\* The step that answers an unauthorized request leaves the storage alone.
RejectionStep ==
    (last' # last /\ Unauthorized(last')) =>
        UNCHANGED <<collection, nextId, connected>>

\* C4: a POST /sensor without token_write and a DELETE /measures without
\* token_delete are rejected before the handler runs: save and deleteAll are
\* not called and the collection is unchanged.
C4_AuthGate == []NoHandlerForUnauthorized /\ [][RejectionStep]_vars

\* The write token was presented to DELETE /measures and rejected while the
\* collection holds documents.
C4_Witness ==
    /\ Answered("delete")
    /\ last.token = token_write
    /\ last.status = 401
    /\ collection # <<>>

----------------------------------------------------------------------------
(* C5: storage failures *)

\* C5: when connect, insert or delete fails in a create or a delete request,
\* save / deleteAll return false and the handler answers 500.
C5_StorageFailureIs500 ==
    (last.pc = "done" /\ last.kind \in {"create", "delete"} /\ last.thrown)
        => (last.status = 500 /\ last.resultado = FALSE
            /\ last.message \in {"Failed to saved data", "Failed to delete data"})

----------------------------------------------------------------------------
(* C6: the value parameter *)

BadValue(s) == ~WellFormed(s) \/ parseInt(s).n <= 0

\* C6: a read whose value is non-positive or not a number answers 400
\* and never gets as far as the cutoff or the storage.
C6_BadValueIs400 ==
    /\ \A r \in Reqs : req[r].kind = "read" => ~BadValue(req[r].value)
    /\ (Answered("read") /\ BadValue(last.value))
          => (last.status = 400 /\ ~CalledStorage(last))

----------------------------------------------------------------------------
(* C7: the scale parameter *)

\* C7: a read whose scale is none of hours, mins, secs answers 400 whatever
\* the value, never opens a storage connection and never answers 200.
C7_UnknownScaleIs400 ==
    /\ \A r \in Reqs : req[r].kind = "read" => req[r].scale \in KnownScales
    /\ (Answered("read") /\ last.scale \notin KnownScales)
          => (last.status = 400 /\ ~CalledStorage(last) /\ last.measures = <<>>)

\* A valid value with an unknown scale was answered "Not implemented".
C7_Witness ==
    /\ Answered("read")
    /\ last.scale \notin KnownScales
    /\ ~BadValue(last.value)
    /\ last.status = 400
    /\ last.message = "Not implemented"

----------------------------------------------------------------------------
(* C8: the create request *)

Authorized(q) == q.kind = "create" /\ q.token = token_write

\* C8: an authorized create whose body has a measure field calls save once,
\* which stores the measure with the server's date, and answers 202 (read
\* here for the requests whose storage calls do not throw); one whose body
\* has no measure field answers 400 and calls nothing.
C8_CreateWithMeasureIs202 ==
    (last.pc = "done" /\ Authorized(last) /\ last.body.valid)
        => IF last.body.hasMeasure
           THEN ~last.thrown =>
                  /\ last.status = 202
                  /\ last.connects = 1 /\ last.ops = 1
                  /\ last.resultado
           ELSE last.status = 400 /\ last.ops = 0

----------------------------------------------------------------------------
(* C9: the connection is closed on every exit path *)

\* C9: save, read and deleteAll run client.close() exactly once on every
\* exit path: a storage function has closed once when it returns or throws
\* to the handler, and no request is answered having connected without
\* having closed.
C9_CloseOnEveryPath ==
    /\ \A r \in Reqs :
         /\ req[r].closes <= 1
         /\ req[r].pc = "return" => (req[r].connects = 1 /\ req[r].closes = 1)
    /\ last.pc = "done" => last.closes = last.connects

\* A request whose connect or operation threw was answered after one close.
C9_Witness ==
    /\ last.pc = "done"
    /\ last.thrown
    /\ last.connects = 1
    /\ last.closes = 1

----------------------------------------------------------------------------
(* C10: requests sharing the client *)

\* C10: no request's insert, find or delete runs after another request's
\* close() has closed the shared client since this request connected.
C10_NoForeignClose ==
    /\ \A r \in Reqs : ~req[r].opAfterForeignClose
    /\ ~last.opAfterForeignClose

====
